---- MODULE Spec2Model ----
(***************************************************************************)
(* Amortization calculator: schedule generation                            *)
(* (calculateAmortizationSchedule) and recalculation with loan updates     *)
(* (recalculateScheduleWithUpdates), driven by the home page and the       *)
(* results page.                                                           *)
(*                                                                         *)
(* Numbers.  A JavaScript number holding money is a whole count of         *)
(* 1/100000 of a currency unit (Dollar = 100000, Cent = 1000), or one of   *)
(* the three special values PosInf, NegInf, NaN.  Every arithmetic step    *)
(* of the source is one operator below, rounding to the nearest count,     *)
(* so the unrounded running values of the source and the values rounded    *)
(* to cents that it stores stay distinct.  An annual rate in percent is a  *)
(* whole count of 0.01 % (the step of the rate input), so that             *)
(* monthlyRate = rate / 12 / 100 = rate / RateDen.  A compounding factor   *)
(* (1 + monthlyRate)^n is a whole count of 1/FScale.  A term in years is   *)
(* given by its number of months (termInYears * 12).                       *)
(*                                                                         *)
(* Dates.  A Date is its day number (days since 1 January of EpochYear);   *)
(* the local time zone is UTC, so a date string and its Date agree on the  *)
(* calendar day and setHours(0,0,0,0) changes nothing.                     *)
(***************************************************************************)
EXTENDS Integers, Sequences, FiniteSets, TLC

Cent == 1000
Dollar == 100 * Cent
RateDen == 120000
FScale == 100000000
PosInf == 2000000000
NegInf == -2000000000
NaN == -2000000001
NoMonth == 0

IsNaN(x) == x = NaN
IsFinite(x) == x # NaN /\ x # PosInf /\ x # NegInf

(***************************************************************************)
(* Whole-number helpers.  TLC's integers are 32 bits wide, so a product    *)
(* that is divided again is formed piecewise.                              *)
(***************************************************************************)

\* One binary digit of b, from the highest down: state holds the digit's
\* weight p and q, r with a * (b \div (2 * p)) = q * c + r, 0 <= r < c
MulDivDigit(state, a, b, c) ==
  LET q2 == 2 * state.q + (IF state.r >= c - state.r THEN 1 ELSE 0)
      r2 == IF state.r >= c - state.r THEN state.r - (c - state.r)
            ELSE state.r + state.r
      qa == a \div c
      ra == a % c
  IN IF (b \div state.p) % 2 = 0
     THEN [p |-> state.p \div 2, q |-> q2, r |-> r2]
     ELSE IF r2 >= c - ra
       THEN [p |-> state.p \div 2, q |-> q2 + qa + 1, r |-> r2 - (c - ra)]
       ELSE [p |-> state.p \div 2, q |-> q2 + qa, r |-> r2 + ra]

RECURSIVE MulDivDigits(_, _, _, _, _)
MulDivDigits(state, passes, a, b, c) ==
  IF state.p = 0 THEN state
  ELSE IF passes <= 1 THEN MulDivDigit(state, a, b, c)
  ELSE MulDivDigits(MulDivDigits(state, passes \div 2, a, b, c),
                    passes - passes \div 2, a, b, c)

\* a * b / c rounded to the nearest whole count (a, b >= 0, c > 0)
MulDiv(a, b, c) ==
  LET h == MulDivDigits([p |-> 1073741824, q |-> 0, r |-> 0], 31, a, b, c)
  IN IF h.r >= c - h.r THEN h.q + 1 ELSE h.q

\* x * p / d rounded to the nearest whole count (x, p >= 0, d > 0, d * p < 2^31)
MulRatio(x, p, d) == (x \div d) * p + (((x % d) * p + (d \div 2)) \div d)

\* x * y / FScale rounded to the nearest whole count (x, y >= 0)
MulF(x, y) ==
  LET xh == x \div 10000
      xl == x % 10000
      yh == y \div 10000
      yl == y % 10000
      t1 == xh * yl
      t2 == xl * yh
      low == ((t1 % 10000) + (t2 % 10000)) * 10000 + xl * yl
  IN xh * yh + (t1 \div 10000) + (t2 \div 10000) + ((low + (FScale \div 2)) \div FScale)

Abs(x) == IF x < 0 THEN -x ELSE x
Sgn(x) == IF x < 0 THEN -1 ELSE IF x > 0 THEN 1 ELSE 0

(***************************************************************************)
(* IEEE arithmetic on money                                                *)
(***************************************************************************)
FNeg(x) == IF x = NaN THEN NaN ELSE IF x = PosInf THEN NegInf
           ELSE IF x = NegInf THEN PosInf ELSE -x

FAdd(x, y) ==
  IF x = NaN \/ y = NaN THEN NaN
  ELSE IF x = PosInf THEN (IF y = NegInf THEN NaN ELSE PosInf)
  ELSE IF x = NegInf THEN (IF y = PosInf THEN NaN ELSE NegInf)
  ELSE IF y = PosInf \/ y = NegInf THEN y
  ELSE x + y

FSub(x, y) == FAdd(x, FNeg(y))

\* x < y, x <= y, x > y: false whenever an operand is NaN
FLt(x, y) == x # NaN /\ y # NaN /\ x < y
FLe(x, y) == x # NaN /\ y # NaN /\ x <= y
FGt(x, y) == FLt(y, x)

\* Math.max and Math.min
FMax(x, y) == IF x = NaN \/ y = NaN THEN NaN ELSE IF x >= y THEN x ELSE y
FMin(x, y) == IF x = NaN \/ y = NaN THEN NaN ELSE IF x <= y THEN x ELSE y

\* Math.round(x * 100) / 100: to the nearest cent, halves upwards
Round2(x) == IF IsFinite(x) THEN ((x + (Cent \div 2)) \div Cent) * Cent ELSE x

\* x * monthlyRate, monthlyRate = rate / 12 / 100 >= 0
MulRate(x, rate) ==
  IF x = NaN THEN NaN
  ELSE IF x = PosInf \/ x = NegInf THEN (IF rate = 0 THEN NaN ELSE x)
  ELSE Sgn(x) * MulRatio(Abs(x), rate, RateDen)

\* 1 + monthlyRate as a factor
OnePlusRate(rate) == FScale + MulRatio(FScale, rate, RateDen)

RECURSIVE GCD(_, _)
GCD(a, b) == IF b = 0 THEN a ELSE GCD(b, a % b)

\* x / (1 + monthlyRate) for x >= 0, the fraction RateDen / (RateDen + rate) in
\* lowest terms where that keeps the products within the whole numbers of TLC
DivOnePlusRate(x, rate) ==
  IF RateDen \div GCD(RateDen, rate) < 40000
  THEN MulRatio(x, RateDen \div GCD(RateDen, rate),
                (RateDen + rate) \div GCD(RateDen, rate))
  ELSE MulDiv(x, RateDen, RateDen + rate)

\* Math.pow(1 + monthlyRate, n) for a whole n
RECURSIVE Pow(_, _)
Pow(rate, n) ==
  IF n = 0 THEN FScale
  ELSE IF n < 0 THEN MulDiv(FScale, FScale, Pow(rate, -n))
  ELSE LET h == Pow(rate, n \div 2)
           sq == MulF(h, h)
       IN IF n % 2 = 0 THEN sq ELSE MulF(sq, OnePlusRate(rate))

\* x / n for a whole number n
DivInt(x, n) ==
  IF x = NaN THEN NaN
  ELSE IF n = 0 THEN (IF x = 0 THEN NaN ELSE IF x > 0 THEN PosInf ELSE NegInf)
  ELSE IF x = PosInf \/ x = NegInf THEN (IF n > 0 THEN x ELSE FNeg(x))
  ELSE Sgn(x) * Sgn(n) * ((Abs(x) + (Abs(n) \div 2)) \div Abs(n))

(***************************************************************************)
(* calculateMonthlyPayment(loanAmount, annualInterestRate, termInYears),   *)
(* totalMonths = termInYears * 12                                          *)
(***************************************************************************)
calculateMonthlyPayment(loanAmount, annualInterestRate, totalMonths) ==
  IF annualInterestRate = 0 THEN DivInt(loanAmount, totalMonths)
  ELSE LET factor == Pow(annualInterestRate, totalMonths)
           g == factor - FScale
           \* monthlyRate * factor / (factor - 1), as a count of 1/(RateDen * 10000)
           rho == MulDiv(factor, annualInterestRate * 10000, Abs(g))
       IN IF loanAmount = NaN THEN NaN
          ELSE IF g = 0
            THEN (IF loanAmount = 0 THEN NaN
                  ELSE IF loanAmount > 0 THEN PosInf ELSE NegInf)
          ELSE IF loanAmount = PosInf \/ loanAmount = NegInf
            THEN (IF g > 0 THEN loanAmount ELSE FNeg(loanAmount))
          ELSE Sgn(loanAmount) * Sgn(g) * MulDiv(Abs(loanAmount), rho, RateDen * 10000)

(***************************************************************************)
(* Dates: new Date(y, m, d) with the month and the day carried over as     *)
(* the Date object carries them, getFullYear / getMonth / getDate, and     *)
(* setMonth                                                                *)
(***************************************************************************)
EpochYear == 2024

IsLeap(y) == (y % 4 = 0 /\ y % 100 # 0) \/ y % 400 = 0

\* the number of leap years before year y
LeapYearsBefore(y) == ((y - 1) \div 4) - ((y - 1) \div 100) + ((y - 1) \div 400)

\* days from the epoch to 1 January of y (y >= EpochYear)
DaysBeforeYear(y) ==
  365 * (y - EpochYear) + LeapYearsBefore(y) - LeapYearsBefore(EpochYear)

\* days from 1 January of y to the first day of month m (0 = January)
DaysBeforeMonth(y, m) ==
  <<0, 31, 59, 90, 120, 151, 181, 212, 243, 273, 304, 334>>[m + 1]
    + (IF m > 1 /\ IsLeap(y) THEN 1 ELSE 0)

\* the Date for year y, month m (0 = January, 12 and more run into the next
\* years) and day d (a day past the end of the month runs into the next month)
MakeDate(y, m, d) ==
  DaysBeforeYear(y + m \div 12) + DaysBeforeMonth(y + m \div 12, m % 12) + d - 1

RECURSIVE YearFrom(_, _)
YearFrom(y, date) == IF date < DaysBeforeYear(y + 1) THEN y ELSE YearFrom(y + 1, date)

getFullYear(date) == YearFrom(EpochYear, date)

\* the month of the n-th day (from 0) of year y: n \div 31 or the one after
MonthOf(y, n) ==
  IF n \div 31 < 11 /\ n >= DaysBeforeMonth(y, n \div 31 + 1)
  THEN n \div 31 + 1 ELSE n \div 31

\* the year, month (0 = January) and day of the month of a Date
Calendar(date) ==
  LET y == getFullYear(date)
      n == date - DaysBeforeYear(y)
  IN [year |-> y, month |-> MonthOf(y, n),
      day |-> n - DaysBeforeMonth(y, MonthOf(y, n)) + 1]

getMonth(date) == Calendar(date).month

\* copy = new Date(date); copy.setMonth(month): the year and the day of the
\* month of date, with the given month; date is given by its Calendar
setMonth(date, month) == MakeDate(date.year, month, date.day)

(***************************************************************************)
(* calculateAmortizationSchedule(loanAmount, annualInterestRate,           *)
(* termInYears, startDate), totalMonths = termInYears * 12                 *)
(***************************************************************************)
\* GenerateMonth that takes a rate of 0 for a missing one and charges 6 %
GenerateMonthDefaultRate(state, payment, rate, start) ==
  LET interest == MulRate(state.remainingBalance, IF rate = 0 THEN 600 ELSE rate)
      principal == FSub(payment, interest)
      remainingBalance == FMax(0, FSub(state.remainingBalance, principal))
      paymentDate == setMonth(start, start.month + state.month - 1)
  IN [month |-> state.month + 1,
      remainingBalance |-> remainingBalance,
      schedule |-> Append(state.schedule,
        [month |-> state.month,
         date |-> paymentDate,
         payment |-> Round2(payment),
         interest |-> Round2(interest),
         principal |-> Round2(principal),
         remainingBalance |-> Round2(remainingBalance)])]

\* one pass of the loop body; state holds the loop variable month, the
\* unrounded remainingBalance and the schedule so far
GenerateMonth(state, payment, rate, start) ==
  LET interest == MulRate(state.remainingBalance, rate)
      principal == FSub(payment, interest)
      remainingBalance == FMax(0, FSub(state.remainingBalance, principal))
      paymentDate == setMonth(start, start.month + state.month - 1)
  IN [month |-> state.month + 1,
      remainingBalance |-> remainingBalance,
      schedule |-> Append(state.schedule,
        [month |-> state.month,
         date |-> paymentDate,
         payment |-> Round2(payment),
         interest |-> Round2(interest),
         principal |-> Round2(principal),
         remainingBalance |-> Round2(remainingBalance)])]

\* GenerateMonths with the loop test month < totalMonths: it stops one month
\* short of the term
RECURSIVE GenerateMonthsShort(_, _, _, _, _, _)
GenerateMonthsShort(state, passes, totalMonths, payment, rate, start) ==
  IF state.month >= totalMonths THEN state
  ELSE IF passes <= 1 THEN GenerateMonth(state, payment, rate, start)
  ELSE GenerateMonthsShort(
         GenerateMonthsShort(state, passes \div 2, totalMonths, payment, rate, start),
         passes - passes \div 2, totalMonths, payment, rate, start)

\* for (month = ...; month <= totalMonths; month++), followed for the given
\* number of passes; the passes are halved to keep the evaluation shallow
RECURSIVE GenerateMonths(_, _, _, _, _, _)
GenerateMonths(state, passes, totalMonths, payment, rate, start) ==
  IF state.month > totalMonths THEN state
  ELSE IF passes <= 1 THEN GenerateMonth(state, payment, rate, start)
  ELSE GenerateMonths(
         GenerateMonths(state, passes \div 2, totalMonths, payment, rate, start),
         passes - passes \div 2, totalMonths, payment, rate, start)

calculateAmortizationSchedule(loanAmount, annualInterestRate, totalMonths, startDate) ==
  GenerateMonths([month |-> 1, remainingBalance |-> loanAmount, schedule |-> <<>>],
                 totalMonths, totalMonths,
                 calculateMonthlyPayment(loanAmount, annualInterestRate, totalMonths),
                 annualInterestRate, Calendar(startDate)).schedule

(***************************************************************************)
(* calculateRemainingMonths(remainingBalance, annualInterestRate,          *)
(* monthlyPayment): a whole number of months, PosInf or NaN.               *)
(* Math.ceil(-log(1 - B r / M) / log(1 + r)) is the least whole n with     *)
(* (1 + r)^n * (M - B r) >= M.                                             *)
(***************************************************************************)
\* Math.ceil(-Math.log(1 - numerator) / Math.log(1 + monthlyRate)) is the least
\* whole n with monthlyPayment / (1 + monthlyRate)^n <= gap, where
\* gap = monthlyPayment - remainingBalance * monthlyRate > 0.  state holds the
\* candidate n, monthlyPayment / (1 + monthlyRate)^n and whether n is the answer
RECURSIVE LeastMonths(_, _, _, _)
LeastMonths(state, passes, rate, gap) ==
  IF state.found THEN state
  ELSE IF passes <= 1 THEN
    IF state.discounted <= gap
    THEN [state EXCEPT !.found = TRUE]
    ELSE [n |-> state.n + 1,
          discounted |-> DivOnePlusRate(state.discounted, rate),
          found |-> FALSE]
  ELSE LeastMonths(LeastMonths(state, passes \div 2, rate, gap),
                   passes - passes \div 2, rate, gap)

\* the answer is below this: (1 + r)^n >= 1 + n r, and no quotient
\* monthlyPayment / gap is beyond the range of a number
MaxMonths(rate) == (22 * RateDen) \div rate + 22

calculateRemainingMonths(remainingBalance, annualInterestRate, monthlyPayment) ==
  IF remainingBalance = NaN \/ monthlyPayment = NaN THEN NaN
  ELSE IF annualInterestRate = 0 THEN
    \* Math.ceil(remainingBalance / monthlyPayment)
    IF ~IsFinite(remainingBalance)
      THEN (IF ~IsFinite(monthlyPayment) THEN NaN
            ELSE IF (remainingBalance = PosInf) = (monthlyPayment >= 0)
              THEN PosInf ELSE NegInf)
    ELSE IF ~IsFinite(monthlyPayment) THEN 0
    ELSE IF monthlyPayment = 0
      THEN (IF remainingBalance = 0 THEN NaN
            ELSE IF remainingBalance > 0 THEN PosInf ELSE NegInf)
    ELSE IF (remainingBalance >= 0) = (monthlyPayment > 0)
      THEN (Abs(remainingBalance) + Abs(monthlyPayment) - 1) \div Abs(monthlyPayment)
    ELSE -(Abs(remainingBalance) \div Abs(monthlyPayment))
  ELSE IF FLe(monthlyPayment, MulRate(remainingBalance, annualInterestRate)) THEN PosInf
  ELSE IF monthlyPayment = PosInf THEN 0
  ELSE LET least == LeastMonths([n |-> 0, discounted |-> monthlyPayment,
                                  found |-> FALSE],
                                 MaxMonths(annualInterestRate), annualInterestRate,
                                 monthlyPayment
                                   - MulRate(remainingBalance, annualInterestRate))
       IN CHOOSE n \in {least.n} : least.found

(***************************************************************************)
(* recalculateScheduleWithUpdates                                          *)
(***************************************************************************)

\* [...loanUpdates].sort((a, b) => a.date - b.date): a stable sort
RECURSIVE InsertUpdate(_, _)
InsertUpdate(sorted, update) ==
  IF sorted = <<>> THEN <<update>>
  ELSE IF sorted[Len(sorted)].date <= update.date THEN Append(sorted, update)
  ELSE Append(InsertUpdate(SubSeq(sorted, 1, Len(sorted) - 1), update),
              sorted[Len(sorted)])

\* sortedUpdates without the sort: the updates in the order they were stored
unsortedUpdates(loanUpdates) == loanUpdates

RECURSIVE sortedUpdates(_)
sortedUpdates(loanUpdates) ==
  IF loanUpdates = <<>> THEN <<>>
  ELSE InsertUpdate(sortedUpdates(SubSeq(loanUpdates, 1, Len(loanUpdates) - 1)),
                    loanUpdates[Len(loanUpdates)])

\* FindUpdateIndex that takes the last payment as the pivot of an update dated
\* after it
FindUpdateIndexClamped(currentSchedule, updateDate) ==
  LET onOrAfter == {i \in 0..(Len(currentSchedule) - 1) :
                      currentSchedule[i + 1].date >= updateDate}
  IN IF onOrAfter = {} THEN Len(currentSchedule) - 1
     ELSE CHOOSE i \in onOrAfter : \A j \in onOrAfter : i <= j

\* FindUpdateIndex that looks for the first payment after the update date
FindUpdateIndexAfter(currentSchedule, updateDate) ==
  LET after == {i \in 0..(Len(currentSchedule) - 1) :
                  currentSchedule[i + 1].date > updateDate}
  IN IF after = {} THEN -1
     ELSE CHOOSE i \in after : \A j \in after : i <= j

\* the zero-based index of the first payment on or after the update date, or -1
FindUpdateIndex(currentSchedule, updateDate) ==
  LET onOrAfter == {i \in 0..(Len(currentSchedule) - 1) :
                      currentSchedule[i + 1].date >= updateDate}
  IN IF onOrAfter = {} THEN -1
     ELSE CHOOSE i \in onOrAfter : \A j \in onOrAfter : i <= j

\* ForwardMonth that numbers the months from nextMonthNumber - 1, so that the
\* first of them repeats the number of the pivot
ForwardMonthRenumbered(state, newMonthlyPayment, rate, startDate, nextMonthNumber) ==
  LET interest == MulRate(state.remainingBalance, rate)
      principal == FSub(newMonthlyPayment, interest)
      actualPrincipal == FMin(principal, state.remainingBalance)
      remainingBalance == FMax(0, FSub(state.remainingBalance, actualPrincipal))
      totalPayment == FAdd(actualPrincipal, interest)
      paymentDate == setMonth(startDate, startDate.month + state.month)
  IN [month |-> state.month + 1,
      remainingBalance |-> remainingBalance,
      schedule |-> Append(state.schedule,
        [month |-> nextMonthNumber + state.month - 1,
         date |-> paymentDate,
         payment |-> Round2(totalPayment),
         interest |-> Round2(interest),
         principal |-> Round2(actualPrincipal),
         remainingBalance |-> Round2(remainingBalance)])]

\* one pass of the loop that continues the schedule after the payments of the
\* update; state holds the loop variable month, the unrounded
\* remainingBalance and the schedule so far
ForwardMonth(state, newMonthlyPayment, rate, startDate, nextMonthNumber) ==
  LET interest == MulRate(state.remainingBalance, rate)
      principal == FSub(newMonthlyPayment, interest)
      actualPrincipal == FMin(principal, state.remainingBalance)
      remainingBalance == FMax(0, FSub(state.remainingBalance, actualPrincipal))
      totalPayment == FAdd(actualPrincipal, interest)
      paymentDate == setMonth(startDate, startDate.month + state.month)
  IN [month |-> state.month + 1,
      remainingBalance |-> remainingBalance,
      schedule |-> Append(state.schedule,
        [month |-> nextMonthNumber + state.month,
         date |-> paymentDate,
         payment |-> Round2(totalPayment),
         interest |-> Round2(interest),
         principal |-> Round2(actualPrincipal),
         remainingBalance |-> Round2(remainingBalance)])]

\* ForwardMonths that goes on for all of remainingMonths, whatever is left of
\* the balance
RECURSIVE ForwardMonthsFullCount(_, _, _, _, _, _, _)
ForwardMonthsFullCount(state, passes, remainingMonths, newMonthlyPayment, rate, startDate, nextMonthNumber) ==
  IF ~(state.month < remainingMonths) THEN state
  ELSE IF passes <= 1
    THEN ForwardMonth(state, newMonthlyPayment, rate, startDate, nextMonthNumber)
  ELSE ForwardMonthsFullCount(
         ForwardMonthsFullCount(state, passes \div 2, remainingMonths,
                                newMonthlyPayment, rate, startDate, nextMonthNumber),
         passes - passes \div 2, remainingMonths, newMonthlyPayment, rate, startDate,
         nextMonthNumber)

\* for (month = ...; month < remainingMonths && remainingBalance > 0.01; month++),
\* followed for the given number of passes
RECURSIVE ForwardMonths(_, _, _, _, _, _, _)
ForwardMonths(state, passes, remainingMonths, newMonthlyPayment, rate, startDate, nextMonthNumber) ==
  IF ~(state.month < remainingMonths /\ FGt(state.remainingBalance, Cent)) THEN state
  ELSE IF passes <= 1
    THEN ForwardMonth(state, newMonthlyPayment, rate, startDate, nextMonthNumber)
  ELSE ForwardMonths(
         ForwardMonths(state, passes \div 2, remainingMonths, newMonthlyPayment, rate,
                       startDate, nextMonthNumber),
         passes - passes \div 2, remainingMonths, newMonthlyPayment, rate, startDate,
         nextMonthNumber)

\* ForwardTerms that, retaining the payment, spreads the balance anew over the
\* months the solver found
ForwardTermsRespread(update, currentSchedule, updateIndex, balanceAfterExtraForCalc, originalTermMonths) ==
  IF update.updateType = "retain-term"
  THEN LET elapsedMonths == updateIndex
       IN [newMonthlyPayment |->
             calculateMonthlyPayment(balanceAfterExtraForCalc, update.newInterestRate,
                                     originalTermMonths - elapsedMonths),
           remainingMonths |-> originalTermMonths - elapsedMonths]
  ELSE LET kept == currentSchedule[updateIndex + 1].payment
           solved == calculateRemainingMonths(balanceAfterExtraForCalc,
                                              update.newInterestRate, kept)
           months == IF ~IsFinite(solved) \/ solved <= 0
                     THEN Len(currentSchedule) - updateIndex - 1 ELSE solved
       IN [newMonthlyPayment |->
             calculateMonthlyPayment(balanceAfterExtraForCalc,
                                     update.newInterestRate, months),
           remainingMonths |-> months]

\* ForwardTerms without the fallback: retaining the payment, the forward
\* loop counts to whatever the solver answered
ForwardTermsNoFallback(update, currentSchedule, updateIndex, balanceAfterExtraForCalc, originalTermMonths) ==
  IF update.updateType = "retain-term"
  THEN LET elapsedMonths == updateIndex
       IN [newMonthlyPayment |->
             calculateMonthlyPayment(balanceAfterExtraForCalc, update.newInterestRate,
                                     originalTermMonths - elapsedMonths),
           remainingMonths |-> originalTermMonths - elapsedMonths]
  ELSE [newMonthlyPayment |-> currentSchedule[updateIndex + 1].payment,
        remainingMonths |->
          calculateRemainingMonths(balanceAfterExtraForCalc, update.newInterestRate,
                                   currentSchedule[updateIndex + 1].payment)]

\* the new payment amount and the number of months still to generate
ForwardTerms(update, currentSchedule, updateIndex, balanceAfterExtraForCalc, originalTermMonths) ==
  IF update.updateType = "retain-term"
  THEN \* remainingTermInYears * 12 = originalTermMonths - elapsedMonths.  In
       \* doubles Math.ceil of that product can come out one higher; the
       \* payment is spread over the product itself, so the balance is
       \* within 0.01 of 0 and the forward loop over before the extra pass
       LET elapsedMonths == updateIndex
       IN [newMonthlyPayment |->
             calculateMonthlyPayment(balanceAfterExtraForCalc, update.newInterestRate,
                                     originalTermMonths - elapsedMonths),
           remainingMonths |-> originalTermMonths - elapsedMonths]
  ELSE LET kept == currentSchedule[updateIndex + 1].payment
           solved == calculateRemainingMonths(balanceAfterExtraForCalc,
                                              update.newInterestRate, kept)
           fallback == Len(currentSchedule) - updateIndex - 1
       IN IF ~IsFinite(solved) \/ solved <= 0
          THEN [newMonthlyPayment |->
                  calculateMonthlyPayment(balanceAfterExtraForCalc,
                                          update.newInterestRate, fallback),
                remainingMonths |-> fallback]
          ELSE [newMonthlyPayment |-> kept, remainingMonths |-> solved]

\* the balance before the payment at updateIndex
balanceBeforeUpdate(currentSchedule, updateIndex, originalLoanAmount) ==
  IF updateIndex = 0 THEN originalLoanAmount
  ELSE currentSchedule[updateIndex].remainingBalance

\* the balance after the regular payment at updateIndex, made at the new rate
balanceAfterRegularPayment(currentSchedule, update, updateIndex, originalLoanAmount) ==
  LET before == balanceBeforeUpdate(currentSchedule, updateIndex, originalLoanAmount)
      interest == MulRate(before, update.newInterestRate)
      regularPrincipal == FSub(currentSchedule[updateIndex + 1].payment, interest)
  IN FMax(0, FSub(before, regularPrincipal))

\* regularFirst for a regular payment dated strictly before the update only
regularFirstStrict(currentSchedule, update, updateIndex) ==
  currentSchedule[updateIndex + 1].date < update.date

\* regularPaymentDate.getTime() <= updatePaymentDate.getTime()
regularFirst(currentSchedule, update, updateIndex) ==
  currentSchedule[updateIndex + 1].date <= update.date

\* extraPaymentRemainingBalance that takes the extra payment off the balance
\* after the regular payment, wherever the regular payment is dated
extraPaymentAfterRegular(currentSchedule, update, updateIndex, originalLoanAmount) ==
  FMax(0, FSub(balanceAfterRegularPayment(currentSchedule, update, updateIndex,
                                          originalLoanAmount),
               update.principalPayment))

\* the balance after the extra principal payment
extraPaymentRemainingBalance(currentSchedule, update, updateIndex, originalLoanAmount) ==
  LET lastPaymentBalance ==
        IF regularFirst(currentSchedule, update, updateIndex)
        THEN balanceAfterRegularPayment(currentSchedule, update, updateIndex,
                                        originalLoanAmount)
        ELSE balanceBeforeUpdate(currentSchedule, updateIndex, originalLoanAmount)
  IN FMax(0, FSub(lastPaymentBalance, update.principalPayment))

\* slice that leaves out the first record too
sliceAfterFirst(currentSchedule, updateIndex) ==
  SubSeq(currentSchedule, 2, updateIndex)

\* currentSchedule.slice(0, updateIndex): the records before the pivot
slice(currentSchedule, updateIndex) ==
  SubSeq(currentSchedule, 1, updateIndex)

\* the payments of an update at its pivot: the schedule up to and with them
\* (updatedSchedule before the forward loop) and the values the forward loop
\* starts from
UpdatePayments(currentSchedule, update, updateIndex, originalLoanAmount, originalTermMonths) ==
  LET before == balanceBeforeUpdate(currentSchedule, updateIndex, originalLoanAmount)
      rate == update.newInterestRate
      currentPayment == currentSchedule[updateIndex + 1]
      interest == MulRate(before, rate)
      regularPrincipal == FSub(currentPayment.payment, interest)
      regularRecord ==
        [month |-> updateIndex + 1,
         date |-> currentPayment.date,
         payment |-> Round2(currentPayment.payment),
         interest |-> Round2(interest),
         principal |-> Round2(regularPrincipal),
         remainingBalance |->
           Round2(balanceAfterRegularPayment(currentSchedule, update, updateIndex,
                                             originalLoanAmount))]
      balanceAfterExtraForCalc ==
        extraPaymentRemainingBalance(currentSchedule, update, updateIndex,
                                     originalLoanAmount)
      extraRecord ==
        [month |-> NoMonth,
         date |-> update.date,
         payment |-> Round2(update.principalPayment),
         interest |-> 0,
         principal |-> Round2(update.principalPayment),
         remainingBalance |-> Round2(balanceAfterExtraForCalc)]
      terms == ForwardTerms(update, currentSchedule, updateIndex,
                            balanceAfterExtraForCalc, originalTermMonths)
      newInterest == MulRate(balanceAfterExtraForCalc, rate)
      newRegularPrincipal == FSub(terms.newMonthlyPayment, newInterest)
      newBalanceAfterRegular ==
        FMax(0, FSub(balanceAfterExtraForCalc, newRegularPrincipal))
      deferredRecord ==
        [month |-> updateIndex + 1,
         date |-> currentPayment.date,
         payment |-> Round2(terms.newMonthlyPayment),
         interest |-> Round2(newInterest),
         principal |-> Round2(newRegularPrincipal),
         remainingBalance |-> Round2(newBalanceAfterRegular)]
      finalBalanceAfterBothPayments ==
        IF regularFirst(currentSchedule, update, updateIndex)
        THEN balanceAfterExtraForCalc ELSE newBalanceAfterRegular
      lastPaymentDate ==
        IF currentPayment.date > update.date THEN currentPayment.date ELSE update.date
      startDate == setMonth(Calendar(lastPaymentDate), getMonth(lastPaymentDate) + 1)
      nextMonthNumber == updateIndex + 2
      head == slice(currentSchedule, updateIndex)
                \o (IF regularFirst(currentSchedule, update, updateIndex)
                    THEN <<regularRecord, extraRecord>>
                    ELSE <<extraRecord, deferredRecord>>)
  IN [updatedSchedule |-> head,
      remainingBalance |-> finalBalanceAfterBothPayments,
      remainingMonths |-> terms.remainingMonths,
      newMonthlyPayment |-> terms.newMonthlyPayment,
      startDate |-> startDate,
      nextMonthNumber |-> nextMonthNumber]

\* the forward loop, from the payments of the update on
ForwardFrom(payments, rate) ==
  ForwardMonths([month |-> 0,
                 remainingBalance |-> payments.remainingBalance,
                 schedule |-> payments.updatedSchedule],
                payments.remainingMonths, payments.remainingMonths,
                payments.newMonthlyPayment, rate, Calendar(payments.startDate),
                payments.nextMonthNumber).schedule

\* one pass of the loop over sortedUpdates
ApplyUpdate(currentSchedule, update, originalLoanAmount, originalTermMonths) ==
  LET updateIndex == FindUpdateIndex(currentSchedule, update.date)
  IN IF updateIndex = -1 THEN currentSchedule
     ELSE ForwardFrom(UpdatePayments(currentSchedule, update, updateIndex,
                                     originalLoanAmount, originalTermMonths),
                      update.newInterestRate)

RECURSIVE ApplyUpdates(_, _, _, _)
ApplyUpdates(currentSchedule, updates, originalLoanAmount, originalTermMonths) ==
  IF updates = <<>> THEN currentSchedule
  ELSE ApplyUpdates(
         ApplyUpdate(currentSchedule, Head(updates), originalLoanAmount,
                     originalTermMonths),
         Tail(updates), originalLoanAmount, originalTermMonths)

\* Before that, of two records of one date, puts the extra payment first
BeforeExtraFirst(a, b) ==
  \/ a.date < b.date
  \/ a.date = b.date /\ a.month = NoMonth /\ b.month # NoMonth

\* the comparison of the final sort: a is to come before b
Before(a, b) ==
  \/ a.date < b.date
  \/ a.date = b.date /\ a.month # NoMonth /\ b.month = NoMonth

\* currentSchedule.sort(...): a stable sort
RECURSIVE InsertRecord(_, _)
InsertRecord(sorted, rec) ==
  IF sorted = <<>> THEN <<rec>>
  ELSE IF ~Before(rec, sorted[Len(sorted)]) THEN Append(sorted, rec)
  ELSE Append(InsertRecord(SubSeq(sorted, 1, Len(sorted) - 1), rec),
              sorted[Len(sorted)])

\* the records taken one by one into the sorted sequence; state holds the
\* number of records taken and the sorted sequence of them
RECURSIVE InsertRecords(_, _, _)
InsertRecords(state, passes, records) ==
  IF state.taken >= Len(records) THEN state
  ELSE IF passes <= 1
    THEN [taken |-> state.taken + 1,
          sorted |-> InsertRecord(state.sorted, records[state.taken + 1])]
  ELSE InsertRecords(InsertRecords(state, passes \div 2, records),
                     passes - passes \div 2, records)

SortSchedule(currentSchedule) ==
  InsertRecords([taken |-> 0, sorted |-> <<>>], Len(currentSchedule),
                currentSchedule).sorted

\* recalculateScheduleWithUpdates that answers an empty list of updates with
\* an empty schedule
recalculateOrEmpty(originalSchedule, loanUpdates, originalInterestRate, originalLoanAmount, originalTermMonths) ==
  IF Len(loanUpdates) = 0 THEN <<>>
  ELSE SortSchedule(ApplyUpdates(originalSchedule, sortedUpdates(loanUpdates),
                                 originalLoanAmount, originalTermMonths))

recalculateScheduleWithUpdates(originalSchedule, loanUpdates, originalInterestRate, originalLoanAmount, originalTermMonths) ==
  IF Len(loanUpdates) = 0 THEN originalSchedule
  ELSE SortSchedule(ApplyUpdates(originalSchedule, sortedUpdates(loanUpdates),
                                 originalLoanAmount, originalTermMonths))

(***************************************************************************)
(* The pages.  The store amortizationResults holds the loan parameters,    *)
(* the base schedule and the loan updates; the results page derives the    *)
(* displayed schedule from them.                                           *)
(***************************************************************************)
MaxTermYears == 1
MaxUpdates == 2

LoanAmounts == {1200 * Dollar}
InterestRates == {0, 600}
PaymentTerms == 1..MaxTermYears
StartDates == {MakeDate(2024, 0, 31), MakeDate(2024, 1, 20)}

PrincipalPayments == {100 * Dollar}
NewInterestRates == {0, 600, 12500}
UpdateDates == {MakeDate(2024, 2, 31), MakeDate(2025, 0, 15)}
UpdateTypes == {"retain-term", "retain-payment"}

\* page .. schedule: the page shown, the store amortizationResults and the
\* schedule derived from it; savedFile: the session file last downloaded;
\* run: a call of recalculateScheduleWithUpdates followed step by step;
\* form: the update form of the results page and the flag of its modal
VARIABLES page, loanAmount, interestRate, paymentTerm, startDate,
          baseSchedule, loanUpdates, schedule, savedFile, run, form

vars == <<page, loanAmount, interestRate, paymentTerm, startDate,
          baseSchedule, loanUpdates, schedule, savedFile, run, form>>

\* no session file has been downloaded; no call is followed
NoFile == [version |-> 0]
NoRun == [pc |-> "none"]

\* new Date().toISOString().split('T')[0], the day the page is used
Today == MakeDate(2024, 2, 31)

\* the update form as the results page declares it; a text is the sequence
\* of its characters
InitialForm ==
  [showUpdateModal |-> FALSE,
   principalPaymentDisplay |-> <<>>,
   principalPayment |-> 0,
   newInterestRate |-> 0,
   updateDate |-> Today,
   updateType |-> "retain-term"]

\* let schedule = $derived.by(...)
DerivedSchedule(base, updates, rate, amount, term) ==
  IF Len(updates) > 0
  THEN recalculateScheduleWithUpdates(base, updates, rate, amount, term * 12)
  ELSE base

Init ==
  /\ page = "home"
  /\ loanAmount = 0
  /\ interestRate = 0
  /\ paymentTerm = 0
  /\ startDate = 0
  /\ baseSchedule = <<>>
  /\ loanUpdates = <<>>
  /\ schedule = <<>>
  /\ savedFile = NoFile
  /\ run = NoRun
  /\ form = InitialForm

\* the home page: validateForm and calculateAmortization
CalculateAmortization(amount, rate, term, start) ==
  /\ page = "home"
  /\ amount > 0 /\ rate >= 0 /\ term > 0
  /\ page' = "results"
  /\ loanAmount' = amount
  /\ interestRate' = rate
  /\ paymentTerm' = term
  /\ startDate' = start
  /\ baseSchedule' = calculateAmortizationSchedule(amount, rate, term * 12, start)
  /\ loanUpdates' = <<>>
  /\ schedule' = baseSchedule'
  /\ UNCHANGED <<savedFile, run, form>>

\* SubmitLoanUpdate that patches the displayed schedule with the new update
\* instead of replaying all the updates from the base schedule
SubmitLoanUpdatePatching(principalPayment, newInterestRate, updateDate, updateType) ==
  /\ page = "results"
  /\ principalPayment > 0
  /\ Len(loanUpdates) < MaxUpdates
  /\ loanUpdates' = Append(loanUpdates,
       [principalPayment |-> principalPayment,
        newInterestRate |-> newInterestRate, date |-> updateDate,
        updateType |-> updateType])
  /\ schedule' = DerivedSchedule(schedule, <<loanUpdates'[Len(loanUpdates')]>>,
                                 interestRate, loanAmount, paymentTerm)
  /\ UNCHANGED <<page, loanAmount, interestRate, paymentTerm, startDate, baseSchedule>>
  /\ UNCHANGED <<savedFile, run>>
  /\ form' = [form EXCEPT !.showUpdateModal = FALSE]

\* the results page: submitLoanUpdate.  The id of the new update is a fresh
\* UUID; it tells the stored updates apart and nothing else reads it, so an
\* update is known by its place in loanUpdates
SubmitLoanUpdate(principalPayment, newInterestRate, updateDate, updateType) ==
  /\ page = "results"
  /\ principalPayment > 0
  /\ Len(loanUpdates) < MaxUpdates
  /\ loanUpdates' = Append(loanUpdates,
       [principalPayment |-> principalPayment,
        newInterestRate |-> newInterestRate, date |-> updateDate,
        updateType |-> updateType])
  /\ schedule' = DerivedSchedule(baseSchedule, loanUpdates', interestRate,
                                 loanAmount, paymentTerm)
  /\ UNCHANGED <<page, loanAmount, interestRate, paymentTerm, startDate, baseSchedule>>
  /\ UNCHANGED <<savedFile, run>>
  /\ form' = [form EXCEPT !.showUpdateModal = FALSE]

\* updates.filter(update => update.id !== updateId), updateId being the id
\* of the update at the given place
WithoutId(updates, place) ==
  SubSeq(updates, 1, place - 1) \o SubSeq(updates, place + 1, Len(updates))

\* the results page: removeLoanUpdate, from the button of a listed update
RemoveLoanUpdate(place) ==
  /\ page = "results"
  /\ place \in 1..Len(loanUpdates)
  /\ loanUpdates' = WithoutId(loanUpdates, place)
  /\ schedule' = DerivedSchedule(baseSchedule, loanUpdates', interestRate,
                                 loanAmount, paymentTerm)
  /\ UNCHANGED <<page, loanAmount, interestRate, paymentTerm, startDate, baseSchedule>>
  /\ UNCHANGED <<savedFile, run, form>>

\* the results page: clearAllLoanUpdates
ClearAllLoanUpdates ==
  /\ page = "results"
  /\ loanUpdates' = <<>>
  /\ schedule' = DerivedSchedule(baseSchedule, loanUpdates', interestRate,
                                 loanAmount, paymentTerm)
  /\ UNCHANGED <<page, loanAmount, interestRate, paymentTerm, startDate, baseSchedule>>
  /\ UNCHANGED <<savedFile, run, form>>

\* the results page: startNewSession
StartNewSession ==
  /\ page = "results"
  /\ page' = "home"
  /\ loanAmount' = 0
  /\ interestRate' = 0
  /\ paymentTerm' = 0
  /\ startDate' = 0
  /\ baseSchedule' = <<>>
  /\ loanUpdates' = <<>>
  /\ schedule' = <<>>
  /\ UNCHANGED <<savedFile, run, form>>

Next ==
  \/ \E amount \in LoanAmounts, rate \in InterestRates, term \in PaymentTerms,
        start \in StartDates : CalculateAmortization(amount, rate, term, start)
  \/ \E principalPayment \in PrincipalPayments,
        newInterestRate \in NewInterestRates, updateDate \in UpdateDates,
        updateType \in UpdateTypes :
          SubmitLoanUpdate(principalPayment, newInterestRate, updateDate, updateType)
  \/ \E place \in 1..MaxUpdates : RemoveLoanUpdate(place)
  \/ ClearAllLoanUpdates
  \/ StartNewSession

Spec == Init /\ [][Next]_vars

(***************************************************************************)
(* The results page by itself, from the moment calculateAmortization has   *)
(* stored a loan and gone to it                                            *)
(***************************************************************************)
ResultsInit ==
  \E amount \in LoanAmounts, rate \in InterestRates, term \in PaymentTerms,
     start \in StartDates :
    /\ page = "results"
    /\ loanAmount = amount
    /\ interestRate = rate
    /\ paymentTerm = term
    /\ startDate = start
    /\ baseSchedule = calculateAmortizationSchedule(amount, rate, term * 12, start)
    /\ loanUpdates = <<>>
    /\ schedule = baseSchedule
    /\ savedFile = NoFile
    /\ run = NoRun
    /\ form = InitialForm

ResultsNext ==
  \/ \E principalPayment \in PrincipalPayments, newInterestRate \in NewInterestRates,
        updateDate \in UpdateDates, updateType \in UpdateTypes :
       SubmitLoanUpdate(principalPayment, newInterestRate, updateDate, updateType)
  \/ \E place \in 1..MaxUpdates : RemoveLoanUpdate(place)
  \/ ClearAllLoanUpdates

ResultsSpec == ResultsInit /\ [][ResultsNext]_vars

(***************************************************************************)
(* The update form of the results page: the modal, its fields and the      *)
(* submit button.  A text is the sequence of its characters.               *)
(***************************************************************************)
Digits == <<"0", "1", "2", "3", "4", "5", "6", "7", "8", "9">>

IsDigit(c) == \E i \in 1..10 : Digits[i] = c
DigitValue(c) == (CHOOSE i \in 1..10 : Digits[i] = c) - 1

\* [\d,.] and [\d,]
IsAmountChar(c) == IsDigit(c) \/ c = "," \/ c = "."
IsDigitOrComma(c) == IsDigit(c) \/ c = ","
IsNotComma(c) == c # ","

\* value.indexOf('.'), from 1; 0 when there is none
IndexOfPoint(value) ==
  IF \E i \in 1..Len(value) : value[i] = "."
  THEN CHOOSE i \in 1..Len(value) :
         value[i] = "." /\ \A j \in 1..(i - 1) : value[j] # "."
  ELSE 0

\* the text that handlePrincipalPaymentInput keeps of the text of the field:
\* digits, commas and the first decimal point, no comma after the point
SanitizedAmount(text) ==
  LET value == SelectSeq(text, IsAmountChar)
      decimalIndex == IndexOfPoint(value)
  IN IF decimalIndex # 0
     THEN SelectSeq(SubSeq(value, 1, decimalIndex - 1), IsDigitOrComma)
            \o <<".">>
            \o SelectSeq(SubSeq(value, decimalIndex + 1, Len(value)), IsDigit)
     ELSE SelectSeq(value, IsDigitOrComma)

\* the digits a text starts with
RECURSIVE LeadingDigits(_)
LeadingDigits(text) ==
  IF text # <<>> /\ IsDigit(Head(text))
  THEN <<Head(text)>> \o LeadingDigits(Tail(text))
  ELSE <<>>

\* the whole number written by a sequence of digits
RECURSIVE WholeNumber(_)
WholeNumber(digits) ==
  IF digits = <<>> THEN 0
  ELSE 10 * WholeNumber(SubSeq(digits, 1, Len(digits) - 1))
         + DigitValue(digits[Len(digits)])

\* the amount written by the digits after a decimal point, to the 5 decimals
\* that an amount keeps here
RECURSIVE Fraction(_, _)
Fraction(digits, unit) ==
  IF digits = <<>> \/ unit = 0 THEN 0
  ELSE DigitValue(Head(digits)) * unit + Fraction(Tail(digits), unit \div 10)

\* parseFloat of a text without sign or exponent: the number that the
\* longest prefix of digits, point and digits writes; NaN when that prefix
\* has no digit
parseFloat(text) ==
  LET whole == LeadingDigits(text)
      rest == SubSeq(text, Len(whole) + 1, Len(text))
      decimals == IF rest # <<>> /\ Head(rest) = "."
                  THEN LeadingDigits(Tail(rest)) ELSE <<>>
  IN IF whole = <<>> /\ decimals = <<>> THEN NaN
     ELSE WholeNumber(whole) * Dollar + Fraction(decimals, Dollar \div 10)

\* parseLoanAmount
parseLoanAmount(value) ==
  LET cleaned == SelectSeq(value, IsNotComma)
      parsed == parseFloat(cleaned)
  IN IF parsed = NaN THEN 0 ELSE parsed

\* the texts typed into the field of the amount, and the values chosen in
\* the other fields
InputTexts ==
  {<<>>, <<"1", "0", "0">>, <<"1", "0", "0", "x">>, <<"5", "0", ".", "5">>,
   <<",", "2", "0", ",", "0", ".", "0", ",", "1", ".">>}
FormInterestRates == {600}
FormUpdateDates == {MakeDate(2025, 0, 15)}

\* openUpdateModal, from the button of the page, which the backdrop of the
\* open dialog covers
OpenUpdateModal ==
  /\ page = "results"
  /\ ~form.showUpdateModal
  /\ form' = [form EXCEPT !.principalPaymentDisplay = <<>>,
                          !.newInterestRate = interestRate,
                          !.updateDate = Today,
                          !.updateType = "retain-term",
                          !.showUpdateModal = TRUE]
  /\ UNCHANGED <<page, loanAmount, interestRate, paymentTerm, startDate, baseSchedule, loanUpdates, schedule, savedFile, run>>

\* onOpenChange of the dialog when it is closed: the close triggers
OnOpenChange ==
  /\ form.showUpdateModal
  /\ form' = [form EXCEPT !.showUpdateModal = FALSE]
  /\ UNCHANGED <<page, loanAmount, interestRate, paymentTerm, startDate, baseSchedule, loanUpdates, schedule, savedFile, run>>

\* handlePrincipalPaymentInput, text being the text of the field after the
\* keystroke
HandlePrincipalPaymentInput(text) ==
  /\ form.showUpdateModal
  /\ form' = [form EXCEPT !.principalPaymentDisplay = SanitizedAmount(text),
                          !.principalPayment = parseLoanAmount(SanitizedAmount(text))]
  /\ UNCHANGED <<page, loanAmount, interestRate, paymentTerm, startDate, baseSchedule, loanUpdates, schedule, savedFile, run>>

\* bind:value={newInterestRate}
BindNewInterestRate(rate) ==
  /\ form.showUpdateModal
  /\ form' = [form EXCEPT !.newInterestRate = rate]
  /\ UNCHANGED <<page, loanAmount, interestRate, paymentTerm, startDate, baseSchedule, loanUpdates, schedule, savedFile, run>>

\* onValueChange of the date picker with a date selected
OnValueChange(selectedDate) ==
  /\ form.showUpdateModal
  /\ form' = [form EXCEPT !.updateDate = selectedDate]
  /\ UNCHANGED <<page, loanAmount, interestRate, paymentTerm, startDate, baseSchedule, loanUpdates, schedule, savedFile, run>>

\* bind:group={updateType}
BindUpdateType(type) ==
  /\ form.showUpdateModal
  /\ form' = [form EXCEPT !.updateType = type]
  /\ UNCHANGED <<page, loanAmount, interestRate, paymentTerm, startDate, baseSchedule, loanUpdates, schedule, savedFile, run>>

\* onsubmit of the form.  The submit button is disabled while
\* principalPayment <= 0, and the browser submits the form only when its
\* required fields are filled; the field of the amount shows
\* principalPaymentDisplay.  Then submitLoanUpdate reads the form.
SubmitForm ==
  /\ form.showUpdateModal
  /\ form.principalPayment > 0
  /\ form.principalPaymentDisplay # <<>>
  /\ SubmitLoanUpdate(form.principalPayment, form.newInterestRate,
                      form.updateDate, form.updateType)

FormNext ==
  \/ OpenUpdateModal
  \/ OnOpenChange
  \/ \E text \in InputTexts : HandlePrincipalPaymentInput(text)
  \/ \E rate \in FormInterestRates : BindNewInterestRate(rate)
  \/ \E selectedDate \in FormUpdateDates : OnValueChange(selectedDate)
  \/ \E type \in UpdateTypes : BindUpdateType(type)
  \/ SubmitForm
  \/ ClearAllLoanUpdates

FormSpec == ResultsInit /\ [][FormNext]_vars

(***************************************************************************)
(* Saving and loading a session.  A session file is the object that        *)
(* saveSession hands to downloadSessionFile, as JSON.stringify writes it   *)
(* and JSON.parse reads it back: the numbers and the start date come back  *)
(* as they were written, and a member whose value is undefined is not      *)
(* written at all.  propertyName tells whether the file has that member.   *)
(* currencySymbol and hidePastMonths are display settings that no          *)
(* schedule depends on; the files considered have them, well-formed.       *)
(***************************************************************************)
\* const sessionData = {...}: the results page never gives
\* resultsData.propertyName a value
sessionData ==
  [version |-> 1, loanAmount |-> loanAmount, interestRate |-> interestRate,
   paymentTerm |-> paymentTerm, startDate |-> startDate, propertyName |-> FALSE]

\* the results page: saveSession
SaveSession ==
  /\ page = "results"
  /\ savedFile' = sessionData
  /\ UNCHANGED <<page, loanAmount, interestRate, paymentTerm, startDate, baseSchedule, loanUpdates, schedule, run, form>>

\* every required member is there and of its type
validateSessionData(data) == data.propertyName

\* the values are within their ranges; 1e15 is beyond every amount here
validateSessionValues(data) ==
  /\ data.loanAmount > 0
  /\ data.interestRate >= 0 /\ data.interestRate <= 1000 * 100
  /\ data.paymentTerm > 0 /\ data.paymentTerm <= 1000

\* whether handleFileLoad takes the file
Accepted(file) ==
  file # NoFile /\ validateSessionData(file) /\ validateSessionValues(file)

\* what handleFileLoad takes from an accepted file and calculateAmortization
\* puts in the store: the loan, its schedule and no loan updates
LoadedStore(file) ==
  [loanAmount |-> file.loanAmount, interestRate |-> file.interestRate,
   paymentTerm |-> file.paymentTerm, startDate |-> file.startDate,
   schedule |-> calculateAmortizationSchedule(file.loanAmount, file.interestRate,
                                              file.paymentTerm * 12, file.startDate),
   loanUpdates |-> <<>>]

\* the home page: handleFileLoad, which on a file it takes goes on to
\* calculateAmortization, and on any other sets loadError and returns
HandleFileLoad(file) ==
  /\ page = "home"
  /\ IF Accepted(file)
     THEN /\ page' = "results"
          /\ loanAmount' = LoadedStore(file).loanAmount
          /\ interestRate' = LoadedStore(file).interestRate
          /\ paymentTerm' = LoadedStore(file).paymentTerm
          /\ startDate' = LoadedStore(file).startDate
          /\ baseSchedule' = LoadedStore(file).schedule
          /\ loanUpdates' = LoadedStore(file).loanUpdates
          /\ schedule' = baseSchedule'
     ELSE UNCHANGED <<page, loanAmount, interestRate, paymentTerm, startDate, baseSchedule, loanUpdates, schedule>>
  /\ UNCHANGED <<savedFile, run, form>>

\* files written by hand: one with every member, one with a term of 0
WrittenFiles ==
  {[version |-> 1, loanAmount |-> 1200 * Dollar, interestRate |-> 600,
    paymentTerm |-> t, startDate |-> MakeDate(2024, 1, 20), propertyName |-> TRUE] :
     t \in {0, 1}}

SessionNext ==
  \/ Next
  \/ SaveSession
  \/ \E file \in WrittenFiles \cup {savedFile} : HandleFileLoad(file)

SessionSpec == Init /\ [][SessionNext]_vars

(***************************************************************************)
(* A call of recalculateScheduleWithUpdates followed step by step: run     *)
(* holds the position in the function (pc), the sorted updates still to    *)
(* apply (the first of them is the update of the current pass),            *)
(* currentSchedule, and inside the forward loop its loop variable month    *)
(* and the locals the loop reads                                           *)
(***************************************************************************)
RunInterestRates == {600, 15000}

\* the updates of the results page at the rates above, and one update dated
\* on or before the first payment of every loan
RunUpdates ==
  [principalPayment : PrincipalPayments, newInterestRate : RunInterestRates,
   date : UpdateDates, updateType : UpdateTypes]
  \cup {[principalPayment |-> 100 * Dollar, newInterestRate |-> 600,
          date |-> MakeDate(2024, 0, 31), updateType |-> "retain-term"]}

RunLists == UNION {[1..n -> RunUpdates] : n \in 0..MaxUpdates}

\* the results page calls the function on the stored loan
RunInit ==
  \E amount \in LoanAmounts, rate \in InterestRates, term \in PaymentTerms,
     start \in StartDates, updates \in RunLists :
    /\ page = "results"
    /\ loanAmount = amount
    /\ interestRate = rate
    /\ paymentTerm = term
    /\ startDate = start
    /\ baseSchedule = calculateAmortizationSchedule(amount, rate, term * 12, start)
    /\ loanUpdates = updates
    /\ schedule = <<>>
    /\ savedFile = NoFile
    /\ run = [pc |-> "call"]
    /\ form = InitialForm

\* if (!loanUpdates || loanUpdates.length === 0) return originalSchedule
RunReturnOriginal ==
  /\ run.pc = "call"
  /\ Len(loanUpdates) = 0
  /\ schedule' = baseSchedule
  /\ run' = [pc |-> "done"]
  /\ UNCHANGED <<page, loanAmount, interestRate, paymentTerm, startDate, baseSchedule, loanUpdates, savedFile, form>>

\* RunSortUpdates that sorts the list it was given instead of a copy of it
RunSortUpdatesInPlace ==
  /\ run.pc = "call"
  /\ Len(loanUpdates) > 0
  /\ loanUpdates' = sortedUpdates(loanUpdates)
  /\ run' = [pc |-> "update", updates |-> loanUpdates',
             currentSchedule |-> baseSchedule]
  /\ UNCHANGED <<page, loanAmount, interestRate, paymentTerm, startDate, baseSchedule, schedule, savedFile, form>>

\* sortedUpdates = [...loanUpdates].sort(...); currentSchedule = [...originalSchedule]
RunSortUpdates ==
  /\ run.pc = "call"
  /\ Len(loanUpdates) > 0
  /\ run' = [pc |-> "update", updates |-> sortedUpdates(loanUpdates),
             currentSchedule |-> baseSchedule]
  /\ UNCHANGED <<page, loanAmount, interestRate, paymentTerm, startDate, baseSchedule, loanUpdates, schedule, savedFile, form>>

\* if (updateIndex === -1) continue
RunSkipUpdate ==
  /\ run.pc = "update"
  /\ run.updates # <<>>
  /\ FindUpdateIndex(run.currentSchedule, Head(run.updates).date) = -1
  /\ run' = [run EXCEPT !.updates = Tail(run.updates)]
  /\ UNCHANGED <<page, loanAmount, interestRate, paymentTerm, startDate, baseSchedule, loanUpdates, schedule, savedFile, form>>

\* run at the entry of the forward loop
RunAtForward(payments) ==
  [pc |-> "forward", updates |-> run.updates,
   currentSchedule |-> run.currentSchedule,
   updatedSchedule |-> payments.updatedSchedule,
   month |-> 0,
   remainingBalance |-> payments.remainingBalance,
   remainingMonths |-> payments.remainingMonths,
   newMonthlyPayment |-> payments.newMonthlyPayment,
   startDate |-> payments.startDate,
   nextMonthNumber |-> payments.nextMonthNumber]

\* the body of the loop over the updates down to the forward loop
RunUpdatePayments ==
  /\ run.pc = "update"
  /\ run.updates # <<>>
  /\ FindUpdateIndex(run.currentSchedule, Head(run.updates).date) # -1
  /\ run' = RunAtForward(
               UpdatePayments(run.currentSchedule, Head(run.updates),
                              FindUpdateIndex(run.currentSchedule, Head(run.updates).date),
                              loanAmount, paymentTerm * 12))
  /\ UNCHANGED <<page, loanAmount, interestRate, paymentTerm, startDate, baseSchedule, loanUpdates, schedule, savedFile, form>>

\* month < remainingMonths && remainingBalance > 0.01
RunForwardCondition ==
  run.month < run.remainingMonths /\ FGt(run.remainingBalance, Cent)

\* one pass of the forward loop
RunForwardMonth ==
  /\ run.pc = "forward"
  /\ RunForwardCondition
  /\ LET next == ForwardMonth([month |-> run.month,
                               remainingBalance |-> run.remainingBalance,
                               schedule |-> run.updatedSchedule],
                              run.newMonthlyPayment,
                              Head(run.updates).newInterestRate,
                              Calendar(run.startDate), run.nextMonthNumber)
     IN run' = [run EXCEPT !.month = next.month,
                           !.remainingBalance = next.remainingBalance,
                           !.updatedSchedule = next.schedule]
  /\ UNCHANGED <<page, loanAmount, interestRate, paymentTerm, startDate, baseSchedule, loanUpdates, schedule, savedFile, form>>

\* the forward loop is over: currentSchedule = updatedSchedule, next update
RunForwardEnd ==
  /\ run.pc = "forward"
  /\ ~RunForwardCondition
  /\ run' = [pc |-> "update", updates |-> Tail(run.updates),
             currentSchedule |-> run.updatedSchedule]
  /\ UNCHANGED <<page, loanAmount, interestRate, paymentTerm, startDate, baseSchedule, loanUpdates, schedule, savedFile, form>>

\* currentSchedule.sort(...); return currentSchedule
RunReturnSorted ==
  /\ run.pc = "update"
  /\ run.updates = <<>>
  /\ schedule' = SortSchedule(run.currentSchedule)
  /\ run' = [pc |-> "done"]
  /\ UNCHANGED <<page, loanAmount, interestRate, paymentTerm, startDate, baseSchedule, loanUpdates, savedFile, form>>

RunNext ==
  \/ RunReturnOriginal
  \/ RunSortUpdates
  \/ RunSkipUpdate
  \/ RunUpdatePayments
  \/ RunForwardMonth
  \/ RunForwardEnd
  \/ RunReturnSorted

\* the call runs on its own: a step that can be taken is taken
RecalcSpec == RunInit /\ [][RunNext]_vars /\ WF_vars(RunNext)

\* ------------------------------------------------------------------
\* Properties of the schedules

\* the places of the regular payments and of the extra principal payments
MonthRecords(s) == {i \in 1..Len(s) : s[i].month # NoMonth}
ExtraRecords(s) == {i \in 1..Len(s) : s[i].month = NoMonth}
MonthCount(s) == Cardinality(MonthRecords(s))
LastMonthRecord(s) == CHOOSE i \in MonthRecords(s) : \A j \in MonthRecords(s) : j <= i

\* a state with a single stored update of the given type that finds its pivot
\* in the base schedule, and the values its pass over the schedule works with
TheUpdate == loanUpdates[1]
PivotIndex == FindUpdateIndex(baseSchedule, TheUpdate.date)
OneApplied(type) ==
  /\ page = "results"
  /\ Len(loanUpdates) = 1
  /\ TheUpdate.updateType = type
  /\ PivotIndex # -1
KeptPayment == baseSchedule[PivotIndex + 1].payment
PaymentsBeforeExtra ==
  IF regularFirst(baseSchedule, TheUpdate, PivotIndex) THEN PivotIndex + 1 ELSE PivotIndex
Solved ==
  calculateRemainingMonths(
    extraPaymentRemainingBalance(baseSchedule, TheUpdate, PivotIndex, loanAmount),
    TheUpdate.newInterestRate, KeptPayment)
SolverSucceeds == IsFinite(Solved) /\ Solved > 0

BalanceNeverRises(s) ==
  \A i \in 1..Len(s) :
    /\ FLe(0, s[i].remainingBalance)
    /\ i > 1 => FLe(s[i].remainingBalance, s[i - 1].remainingBalance)

\* C1: in the base schedule and in the recalculated schedule the remaining
\* balance never rises from one record to the next and is never negative
C1_BalanceNonIncreasing ==
  page = "results" => BalanceNeverRises(baseSchedule) /\ BalanceNeverRises(schedule)

\* C2: after one applied retain-term update the schedule has as many regular
\* payments as the base schedule, term * 12, and exactly one extra record,
\* dated at the update's date
C2_RetainTermKeepsMonthCount ==
  OneApplied("retain-term") =>
    /\ MonthCount(schedule) = paymentTerm * 12
    /\ MonthCount(schedule) = MonthCount(baseSchedule)
    /\ Cardinality(ExtraRecords(schedule)) = 1
    /\ \A i \in ExtraRecords(schedule) : schedule[i].date = TheUpdate.date

\* C3 as stated: after one applied retain-payment update whose solver
\* succeeds, every regular payment after the pivot period is of the pivot's
\* original amount
C3_KeptPaymentEverywhere ==
  OneApplied("retain-payment") /\ SolverSucceeds =>
    \A i \in MonthRecords(schedule) :
      schedule[i].month > PivotIndex + 1 => schedule[i].payment = KeptPayment

\* C3: after one applied retain-payment update whose solver succeeds, every
\* regular payment after the pivot period other than the last one of the
\* schedule is of the pivot's original amount, and the last one is no greater
C3_KeptPaymentUntilLast ==
  OneApplied("retain-payment") /\ SolverSucceeds =>
    \A i \in MonthRecords(schedule) :
      schedule[i].month > PivotIndex + 1 =>
        IF i = LastMonthRecord(schedule)
        THEN FLe(schedule[i].payment, KeptPayment)
        ELSE schedule[i].payment = KeptPayment

C3_Witness ==
  /\ OneApplied("retain-payment") /\ SolverSucceeds
  /\ \E i \in MonthRecords(schedule) :
       /\ schedule[i].month > PivotIndex + 1
       /\ i # LastMonthRecord(schedule)
       /\ schedule[i].payment = KeptPayment
  /\ schedule[LastMonthRecord(schedule)].month > PivotIndex + 1
  /\ FLt(schedule[LastMonthRecord(schedule)].payment, KeptPayment)

\* C4 as stated: after one applied retain-payment update the schedule has no
\* more regular payments than the base schedule, whatever the new rate
C4_TermNeverLengthens ==
  OneApplied("retain-payment") => MonthCount(schedule) <= MonthCount(baseSchedule)

\* C4: after one applied retain-payment update the schedule has no more
\* regular payments than the base schedule when the solver fails, or when it
\* yields no more months than the base schedule had regular payments left at
\* the extra payment
C4_TermShortensWithinRemainingMonths ==
  /\ OneApplied("retain-payment")
  /\ SolverSucceeds => Solved <= MonthCount(baseSchedule) - PaymentsBeforeExtra
  => MonthCount(schedule) <= MonthCount(baseSchedule)

C4_Witness ==
  /\ OneApplied("retain-payment") /\ SolverSucceeds
  /\ Solved <= MonthCount(baseSchedule) - PaymentsBeforeExtra
  /\ MonthCount(schedule) < MonthCount(baseSchedule)

\* C5: the base schedule has term * 12 records whose month numbers are
\* 1, 2, ..., N in order and whose last record leaves a balance of 0; a
\* principal of 12000 at rate 0 over 1 year gives 12 payments of 1000.00 that
\* end at balance 0
C5_GenerateScheduleShape ==
  /\ page = "results" =>
       /\ Len(baseSchedule) = paymentTerm * 12
       /\ \A i \in 1..Len(baseSchedule) : baseSchedule[i].month = i
       /\ baseSchedule[Len(baseSchedule)].remainingBalance = 0
  /\ \A start \in StartDates :
       LET example == calculateAmortizationSchedule(12000 * Dollar, 0, 12, start)
       IN /\ Len(example) = 12
          /\ \A i \in 1..12 : /\ example[i].month = i
                              /\ example[i].payment = 1000 * Dollar
                              /\ example[i].interest = 0
          /\ example[12].remainingBalance = 0

C5_Witness ==
  /\ page = "results"
  /\ interestRate > 0
  /\ Len(baseSchedule) = paymentTerm * 12
  /\ baseSchedule[1].interest > 0
  /\ baseSchedule[Len(baseSchedule)].month = paymentTerm * 12
  /\ baseSchedule[Len(baseSchedule)].remainingBalance = 0

\* the orderings of n places, and a list of updates taken in such an ordering
Orderings(n) ==
  {p \in [1..n -> 1..n] : \A i, j \in 1..n : i # j => p[i] # p[j]}
Permuted(updates, p) == [i \in 1..Len(updates) |-> updates[p[i]]]

\* the places of the updates by ascending date, those of equal date by place
AscendingPlaces(updates) ==
  CHOOSE p \in Orderings(Len(updates)) :
    \A i, j \in 1..Len(updates) :
      i < j => \/ updates[p[i]].date < updates[p[j]].date
               \/ updates[p[i]].date = updates[p[j]].date /\ p[i] < p[j]

DistinctDates(updates) ==
  \A i, j \in 1..Len(updates) : i # j => updates[i].date # updates[j].date

\* C6: the displayed schedule is the base schedule with the updates applied
\* one after the other by ascending date, those of equal date in the order
\* they were stored; when the dates differ pairwise, every ordering of the
\* stored list gives this same schedule
C6_AppliedInDateOrder ==
  page = "results" /\ Len(loanUpdates) > 0 =>
    /\ schedule =
         SortSchedule(ApplyUpdates(baseSchedule,
                                   Permuted(loanUpdates, AscendingPlaces(loanUpdates)),
                                   loanAmount, paymentTerm * 12))
    /\ DistinctDates(loanUpdates) =>
         \A p \in Orderings(Len(loanUpdates)) :
           recalculateScheduleWithUpdates(baseSchedule, Permuted(loanUpdates, p),
                                          interestRate, loanAmount, paymentTerm * 12)
             = schedule

C6_Witness ==
  /\ page = "results"
  /\ Len(loanUpdates) = 2
  /\ loanUpdates[1].date > loanUpdates[2].date
  /\ FindUpdateIndex(baseSchedule, loanUpdates[1].date) # -1
  /\ schedule # SortSchedule(ApplyUpdates(baseSchedule, loanUpdates, loanAmount,
                                          paymentTerm * 12))
  /\ schedule = recalculateScheduleWithUpdates(baseSchedule,
                                               <<loanUpdates[2], loanUpdates[1]>>,
                                               interestRate, loanAmount,
                                               paymentTerm * 12)

\* C7: recalculation with an empty list of updates gives the base schedule,
\* record for record
C7_EmptyUpdatesReturnBase ==
  page = "results" =>
    recalculateScheduleWithUpdates(baseSchedule, <<>>, interestRate, loanAmount,
                                   paymentTerm * 12) = baseSchedule

C7_Witness ==
  /\ page = "results"
  /\ loanUpdates = <<>>
  /\ Len(baseSchedule) = paymentTerm * 12
  /\ recalculateScheduleWithUpdates(baseSchedule, loanUpdates, interestRate,
                                    loanAmount, paymentTerm * 12) = baseSchedule

LastDate(s) == s[Len(s)].date

\* C8: when the update applied last is dated after the last record of the
\* schedule the updates before it have left, its pass returns that schedule
\* as it is, and the displayed schedule holds the same records; a single such
\* update leaves the base schedule
C8_LateUpdateSkipped ==
  page = "results" /\ Len(loanUpdates) > 0 =>
    LET sorted == sortedUpdates(loanUpdates)
        last == sorted[Len(sorted)]
        current == ApplyUpdates(baseSchedule, SubSeq(sorted, 1, Len(sorted) - 1),
                                loanAmount, paymentTerm * 12)
    IN last.date > LastDate(current) =>
         /\ ApplyUpdate(current, last, loanAmount, paymentTerm * 12) = current
         /\ schedule = SortSchedule(current)
         /\ Len(loanUpdates) = 1 => schedule = baseSchedule

C8_Witness ==
  /\ page = "results"
  /\ Len(loanUpdates) = 1
  /\ loanUpdates[1].date > LastDate(baseSchedule)
  /\ schedule = baseSchedule

PaymentAddsUp(s) ==
  \A i \in 1..Len(s) :
    IF s[i].month # NoMonth
    THEN LET excess == FSub(s[i].payment, FAdd(s[i].interest, s[i].principal))
         IN FLe(excess, Cent) /\ FLe(FNeg(excess), Cent)
    ELSE s[i].interest = 0 /\ s[i].payment = s[i].principal

\* C9: in the base schedule and in the recalculated schedule a regular payment
\* is its interest plus its principal to within a cent, and an extra record
\* has no interest and a payment equal to its principal
C9_PaymentIsInterestPlusPrincipal ==
  page = "results" => PaymentAddsUp(baseSchedule) /\ PaymentAddsUp(schedule)

NoNegativeAmount(s) ==
  \A i \in 1..Len(s) :
    /\ FLe(0, s[i].payment)
    /\ FLe(0, s[i].interest)
    /\ FLe(0, s[i].principal)
    /\ FLe(0, s[i].remainingBalance)

\* C10: in the base schedule and in the recalculated schedule no record has a
\* negative payment, interest, principal or remaining balance
C10_AmountsNonNegative ==
  page = "results" => NoNegativeAmount(baseSchedule) /\ NoNegativeAmount(schedule)

\* C11: in the recalculated schedule the month numbers of the records that
\* carry one are at least 1 and strictly increasing in the order of the
\* records
C11_MonthNumbersIncrease ==
  page = "results" /\ Len(loanUpdates) > 0 =>
    LET numbered == SelectSeq(schedule, LAMBDA rec : rec.month # NoMonth)
    IN \A k \in 1..Len(numbered) :
         /\ numbered[k].month >= 1
         /\ k > 1 => numbered[k - 1].month < numbered[k].month

C11_Witness ==
  /\ page = "results"
  /\ Len(loanUpdates) = 2
  /\ Cardinality(ExtraRecords(schedule)) = 2
  /\ \E i \in MonthRecords(schedule) : schedule[i].month > MonthCount(schedule)
  /\ \A i \in MonthRecords(schedule) : schedule[i].month >= 1

\* C12: the recalculated schedule is in ascending order of date, and of two
\* records of one date a record with a month number comes before a record
\* without one
C12_SortedByDate ==
  page = "results" /\ Len(loanUpdates) > 0 =>
    \A i \in 1..(Len(schedule) - 1) :
      /\ schedule[i].date <= schedule[i + 1].date
      /\ schedule[i].date = schedule[i + 1].date /\ schedule[i + 1].month # NoMonth
           => schedule[i].month # NoMonth

C12_Witness ==
  /\ page = "results"
  /\ Len(loanUpdates) > 0
  /\ \E i \in 1..(Len(schedule) - 1) :
       /\ schedule[i].date = schedule[i + 1].date
       /\ schedule[i].month # NoMonth
       /\ schedule[i + 1].month = NoMonth
  /\ \A i \in 1..(Len(schedule) - 1) : schedule[i].date <= schedule[i + 1].date

\* every record of s is without interest and its payment is all principal
InterestFree(s) ==
  \A i \in 1..Len(s) : s[i].interest = 0 /\ s[i].principal = s[i].payment

\* C15: a schedule generated at a rate of 0 has in every record an interest
\* of 0 and a principal equal to the payment: the stored schedule of a loan
\* at 0 %, and on the home page whatever amount, term and start are entered
C15_ZeroRateInterestFree ==
  /\ page = "results" /\ interestRate = 0 => InterestFree(baseSchedule)
  /\ page = "home" =>
       \A amount \in {1000 * Dollar, 1234567 * Cent}, term \in PaymentTerms,
          start \in StartDates :
         InterestFree(calculateAmortizationSchedule(amount, 0, term * 12, start))

\* a loan at 0 % has been calculated over its whole term
C15_Witness ==
  /\ page = "results" /\ interestRate = 0
  /\ Len(baseSchedule) = paymentTerm * 12
  /\ baseSchedule[1].payment > 0
  /\ InterestFree(baseSchedule)

\* the number of days of the month that is n months after the month of c
DaysOfMonth(c, n) == MakeDate(c.year, c.month + n + 1, 1) - MakeDate(c.year, c.month + n, 1)

\* the date n whole calendar months after start: the same day of the month,
\* or the last day of the month where the month is too short for it
AddMonthsClamped(start, n) ==
  LET c == Calendar(start)
  IN MakeDate(c.year, c.month + n,
              IF c.day <= DaysOfMonth(c, n) THEN c.day ELSE DaysOfMonth(c, n))

\* C16: in the generated schedule the record of month m is dated m - 1 whole
\* calendar months after the start date, on the day of the month of the
\* start date, or on the last day of the month where the month is shorter
C16_DatesClampToMonthEnd ==
  page = "results" =>
    \A i \in 1..Len(baseSchedule) :
      baseSchedule[i].date = AddMonthsClamped(startDate, i - 1)

(***************************************************************************)
(* The results page by itself (ResultsSpec)                                *)
(***************************************************************************)
\* the stored updates after a step are the stored updates before it with one
\* update appended, with one update taken out, or none at all
OnlyAppendedRemovedOrCleared ==
  \/ loanUpdates' = loanUpdates
  \/ /\ Len(loanUpdates') = Len(loanUpdates) + 1
     /\ SubSeq(loanUpdates', 1, Len(loanUpdates)) = loanUpdates
     /\ WithoutId(loanUpdates', Len(loanUpdates')) = loanUpdates
  \/ \E place \in 1..Len(loanUpdates) : loanUpdates' = WithoutId(loanUpdates, place)
  \/ loanUpdates' = <<>>

\* C18: whatever updates were submitted, removed or cleared, the displayed
\* schedule is the recalculation of the base schedule with the updates now
\* stored (the base schedule itself when none is stored); a step changes the
\* stored updates only by appending one, taking one out or clearing them, so
\* that taking out the update just added leaves the list, and with it the
\* schedule, as before; and after clearing the base schedule is displayed
C18_ScheduleIsReplayOfStoredUpdates ==
  /\ [](page = "results" =>
         schedule = IF Len(loanUpdates) = 0 THEN baseSchedule
                    ELSE recalculateScheduleWithUpdates(baseSchedule, loanUpdates,
                           interestRate, loanAmount, paymentTerm * 12))
  /\ [][/\ OnlyAppendedRemovedOrCleared
        /\ ClearAllLoanUpdates => schedule' = baseSchedule]_vars

\* two updates of different kinds are stored, the later-dated submitted
\* first, and the displayed schedule is not the base schedule
C18_Witness ==
  /\ page = "results" /\ Len(loanUpdates) = 2
  /\ loanUpdates[1].date > loanUpdates[2].date
  /\ loanUpdates[1].updateType # loanUpdates[2].updateType
  /\ schedule # baseSchedule

(***************************************************************************)
(* Saving and loading (SessionSpec)                                        *)
(***************************************************************************)
\* C17: a session saved after loan updates were applied, when loaded, gives
\* back the loan and the same list of loan updates: the file just saved is
\* taken by handleFileLoad and what it puts in the store is the loan amount,
\* rate, term and start date and the loan updates that were there on saving
C17_SaveThenLoadRestores ==
  [][SaveSession /\ Len(loanUpdates) > 0 =>
       /\ Accepted(savedFile')
       /\ LoadedStore(savedFile').loanAmount = loanAmount
       /\ LoadedStore(savedFile').interestRate = interestRate
       /\ LoadedStore(savedFile').paymentTerm = paymentTerm
       /\ LoadedStore(savedFile').startDate = startDate
       /\ LoadedStore(savedFile').loanUpdates = loanUpdates]_vars

(***************************************************************************)
(* The call followed step by step (RecalcSpec)                             *)
(***************************************************************************)
\* how far the call is from its return: the updates still to apply, the
\* position within the pass of the current update and the months the forward
\* loop may still generate
RunRank ==
  IF run.pc = "call" THEN <<Len(loanUpdates) + 1, 0, 0>>
  ELSE IF run.pc = "update" THEN <<Len(run.updates), 1, 0>>
  ELSE IF run.pc = "forward"
    THEN <<Len(run.updates) - 1, 2,
           IF run.remainingMonths > run.month
           THEN run.remainingMonths - run.month ELSE 0>>
  ELSE <<0, 0, 0>>

\* the lexicographic order on ranks
RankBelow(a, b) ==
  \/ a[1] < b[1]
  \/ a[1] = b[1] /\ a[2] < b[2]
  \/ a[1] = b[1] /\ a[2] = b[2] /\ a[3] < b[3]

\* C13: the call ends, also for a retain-payment update whose kept payment
\* does not cover the interest on the balance: inside the forward loop the
\* number of months to generate is a finite number, and every step of the
\* call brings it nearer to its return in a well-founded order (updates left,
\* position in the pass, months left), so that no call goes on for ever
C13_RecalculateTerminates ==
  /\ [](run.pc = "forward" => IsFinite(run.remainingMonths))
  /\ [][/\ RankBelow(RunRank', RunRank)
        /\ \A k \in 1..3 : RunRank'[k] >= 0]_vars

\* a call has returned whose only update retains a payment that the solver
\* found insufficient, and months were generated after the payments of the update
C13_Witness ==
  /\ run.pc = "done"
  /\ OneApplied("retain-payment")
  /\ Solved = PosInf
  /\ Len(schedule) > PaymentsBeforeExtra + 2

\* C14: a call leaves the base schedule and the list of updates as they
\* were given, and what it returns is what the function gives for that base
\* schedule and that list, so that a second call returns the same
C14_SameResultInputsUntouched ==
  /\ [](run.pc = "done" =>
         schedule = recalculateScheduleWithUpdates(baseSchedule, loanUpdates,
                      interestRate, loanAmount, paymentTerm * 12))
  /\ [][baseSchedule' = baseSchedule /\ loanUpdates' = loanUpdates]_vars

\* a call has returned that applied two updates given in the reverse of
\* their date order
C14_Witness ==
  /\ run.pc = "done"
  /\ Len(loanUpdates) = 2
  /\ loanUpdates[1].date > loanUpdates[2].date
  /\ Cardinality(ExtraRecords(schedule)) = 2
  /\ schedule # baseSchedule

\* the place of the pivot of the update of the current pass, from 0
RunUpdateIndex == FindUpdateIndex(run.currentSchedule, Head(run.updates).date)

\* the record of the regular payment of the pivot period among the payments
\* of the update: before the record of the extra payment or after it
RunRegularRecord ==
  IF regularFirst(run.currentSchedule, Head(run.updates), RunUpdateIndex)
  THEN run'.updatedSchedule[RunUpdateIndex + 1]
  ELSE run'.updatedSchedule[RunUpdateIndex + 2]

\* C19: for every update of a list, the record of the regular payment of the
\* pivot period has the month number that the pivot record has in the
\* schedule to which the update is applied
C19_PivotKeepsMonthNumber ==
  [][RunUpdatePayments /\ run.currentSchedule[RunUpdateIndex + 1].month # NoMonth =>
       RunRegularRecord.month = run.currentSchedule[RunUpdateIndex + 1].month]_vars

\* the regular payments made before the pivot: the records with a month
\* number ahead of the pivot in the schedule the update is applied to
RunRegularPaymentsBeforePivot ==
  Cardinality({i \in 1..RunUpdateIndex : run.currentSchedule[i].month # NoMonth})

\* C20: for every retain-term update of a list, the months taken off the
\* original term are the regular payments made before the pivot, and the new
\* payment is the monthly payment for the balance after the extra payment at
\* the new rate over the months then left of the original term
C20_ElapsedMonthsAreRegularPayments ==
  [][RunUpdatePayments /\ Head(run.updates).updateType = "retain-term" =>
       /\ run'.remainingMonths = paymentTerm * 12 - RunRegularPaymentsBeforePivot
       /\ run'.newMonthlyPayment =
            calculateMonthlyPayment(
              extraPaymentRemainingBalance(run.currentSchedule, Head(run.updates),
                                           RunUpdateIndex, loanAmount),
              Head(run.updates).newInterestRate,
              paymentTerm * 12 - RunRegularPaymentsBeforePivot)]_vars

\* the pivot of the update of the current pass and the balance before it, in
\* the schedule the update is applied to
RunPivot == run.currentSchedule[RunUpdateIndex + 1]
RunBalanceBefore ==
  IF RunUpdateIndex = 0 THEN loanAmount
  ELSE run.currentSchedule[RunUpdateIndex].remainingBalance

\* the interest of the regular payment of the pivot and the balance after it,
\* at the rate of the update
RunRegularInterest == MulRate(RunBalanceBefore, Head(run.updates).newInterestRate)
RunBalanceAfterRegular ==
  FMax(0, FSub(RunBalanceBefore, FSub(RunPivot.payment, RunRegularInterest)))

\* C21: when the pivot is dated on the date of the update, the payments of the
\* update are the regular record of the pivot, with the payment amount of the
\* pivot, the interest of the balance before the update at the new rate and
\* the balance left by that payment (not below 0), and right after it the
\* record of the extra payment, dated on the date of the update, with the
\* balance after the regular payment less the principal payment (not below 0)
C21_SameDateRegularThenExtra ==
  [][RunUpdatePayments /\ RunPivot.date = Head(run.updates).date =>
       /\ Len(run'.updatedSchedule) = RunUpdateIndex + 2
       /\ run'.updatedSchedule[RunUpdateIndex + 1].month # NoMonth
       /\ run'.updatedSchedule[RunUpdateIndex + 1].date = RunPivot.date
       /\ run'.updatedSchedule[RunUpdateIndex + 1].payment = RunPivot.payment
       /\ run'.updatedSchedule[RunUpdateIndex + 1].interest = Round2(RunRegularInterest)
       /\ run'.updatedSchedule[RunUpdateIndex + 1].remainingBalance
            = Round2(RunBalanceAfterRegular)
       /\ run'.updatedSchedule[RunUpdateIndex + 2].month = NoMonth
       /\ run'.updatedSchedule[RunUpdateIndex + 2].date = Head(run.updates).date
       /\ run'.updatedSchedule[RunUpdateIndex + 2].remainingBalance
            = Round2(FMax(0, FSub(RunBalanceAfterRegular,
                                  Head(run.updates).principalPayment)))]_vars

\* the payments of an update dated on the date of its pivot have been made,
\* at a rate other than that of the loan
C21_Witness ==
  /\ run.pc = "forward" /\ run.month = 0
  /\ RunPivot.date = Head(run.updates).date
  /\ Head(run.updates).newInterestRate # interestRate
  /\ run.updatedSchedule[RunUpdateIndex + 1].interest > 0
  /\ run.updatedSchedule[RunUpdateIndex + 2].month = NoMonth

\* the balance after the extra payment when it is made before the regular
\* payment of the pivot, and the interest of that balance at the new rate
RunBalanceAfterExtraFirst ==
  FMax(0, FSub(RunBalanceBefore, Head(run.updates).principalPayment))
RunDeferredInterest ==
  MulRate(RunBalanceAfterExtraFirst, Head(run.updates).newInterestRate)

\* C22: when the pivot is dated after the date of the update, the payments of
\* the update are the record of the extra payment, with the balance before
\* the update less the principal payment (not below 0), and after it the
\* regular record of the pivot, on the date of the pivot, with the new
\* payment amount of the forward loop, the interest of the balance after the
\* extra payment at the new rate and the balance left by that payment; from
\* that balance the forward loop goes on
C22_ExtraThenRegeneratedRegular ==
  [][RunUpdatePayments /\ RunPivot.date > Head(run.updates).date =>
       /\ Len(run'.updatedSchedule) = RunUpdateIndex + 2
       /\ run'.updatedSchedule[RunUpdateIndex + 1].month = NoMonth
       /\ run'.updatedSchedule[RunUpdateIndex + 1].date = Head(run.updates).date
       /\ run'.updatedSchedule[RunUpdateIndex + 1].remainingBalance
            = Round2(RunBalanceAfterExtraFirst)
       /\ run'.updatedSchedule[RunUpdateIndex + 2].month # NoMonth
       /\ run'.updatedSchedule[RunUpdateIndex + 2].date = RunPivot.date
       /\ run'.updatedSchedule[RunUpdateIndex + 2].payment
            = Round2(run'.newMonthlyPayment)
       /\ run'.updatedSchedule[RunUpdateIndex + 2].interest
            = Round2(RunDeferredInterest)
       /\ run'.updatedSchedule[RunUpdateIndex + 2].principal
            = Round2(FSub(run'.newMonthlyPayment, RunDeferredInterest))
       /\ run'.remainingBalance
            = FMax(0, FSub(RunBalanceAfterExtraFirst,
                           FSub(run'.newMonthlyPayment, RunDeferredInterest)))
       /\ run'.updatedSchedule[RunUpdateIndex + 2].remainingBalance
            = Round2(run'.remainingBalance)]_vars

\* the payments of an update dated before its pivot have been made, at a
\* payment amount other than that of the pivot
C22_Witness ==
  /\ run.pc = "forward" /\ run.month = 0
  /\ RunPivot.date > Head(run.updates).date
  /\ run.updatedSchedule[RunUpdateIndex + 1].month = NoMonth
  /\ run.updatedSchedule[RunUpdateIndex + 2].payment # RunPivot.payment
  /\ run.updatedSchedule[RunUpdateIndex + 2].payment > 0

\* the records that the pass of an update has kept ahead of its payments
RunKept == Len(run'.updatedSchedule) - 2

\* the balance before the record after the kept ones
RunBalanceBeforeKept ==
  IF RunKept = 0 THEN loanAmount ELSE run.currentSchedule[RunKept].remainingBalance

\* C23: for every update applied, the pivot is the first record of the
\* schedule as the earlier updates left it that is dated on or after the date
\* of the update, so that every record kept ahead of the payments of the
\* update is dated before the update; and the balance the payments start
\* from is the loan amount when the pivot is the first record, and the
\* remaining balance of the record before the pivot otherwise
C23_PivotAndBalanceBeforeIt ==
  [][RunUpdatePayments =>
       /\ RunKept \in 0..(Len(run.currentSchedule) - 1)
       /\ \A j \in 1..RunKept : run.currentSchedule[j].date < Head(run.updates).date
       /\ run.currentSchedule[RunKept + 1].date >= Head(run.updates).date
       /\ run'.updatedSchedule[RunKept + 1].remainingBalance =
            IF run.currentSchedule[RunKept + 1].date = Head(run.updates).date
            THEN Round2(FMax(0, FSub(RunBalanceBeforeKept,
                   FSub(run.currentSchedule[RunKept + 1].payment,
                        MulRate(RunBalanceBeforeKept,
                                Head(run.updates).newInterestRate)))))
            ELSE Round2(FMax(0, FSub(RunBalanceBeforeKept,
                                     Head(run.updates).principalPayment)))]_vars

\* a later update of a list is being applied, at a pivot that is not the
\* first record, after an update whose pivot was the first record
C23_Witness ==
  /\ run.pc = "forward" /\ run.month = 0
  /\ Len(run.updates) < Len(loanUpdates)
  /\ Len(run.updatedSchedule) > 3
  /\ run.currentSchedule # baseSchedule
  /\ \E i \in 1..Len(loanUpdates) : loanUpdates[i].date <= baseSchedule[1].date

\* the balance after the extra payment of the update of the current pass, and
\* the months in which the payment amount of the pivot pays it off at the new
\* rate
RunBalanceAfterExtra ==
  IF RunPivot.date <= Head(run.updates).date
  THEN FMax(0, FSub(RunBalanceAfterRegular, Head(run.updates).principalPayment))
  ELSE RunBalanceAfterExtraFirst
RunSolvedMonths ==
  calculateRemainingMonths(RunBalanceAfterExtra, Head(run.updates).newInterestRate,
                           RunPivot.payment)

\* C24: for every retain-payment update of a list whose retained payment does
\* not pay off the balance in a usable number of months, the months still to
\* generate are the months of the original loan less the place of the pivot
\* less 1, and the new payment is the monthly payment over those months
C24_FallbackFromOriginalMonths ==
  [][(/\ RunUpdatePayments
      /\ Head(run.updates).updateType = "retain-payment"
      /\ (~IsFinite(RunSolvedMonths) \/ RunSolvedMonths <= 0)) =>
       /\ run'.remainingMonths = paymentTerm * 12 - RunUpdateIndex - 1
       /\ run'.newMonthlyPayment =
            calculateMonthlyPayment(RunBalanceAfterExtra,
                                    Head(run.updates).newInterestRate,
                                    paymentTerm * 12 - RunUpdateIndex - 1)]_vars

\* C25: the pass of an update leaves the records before the pivot as they
\* were, in the same order, ahead of the records made for the update, at
\* every point of the forward loop and so in the schedule the pass ends
\* with; and the final sort leaves every record of that schedule in its place
C25_RecordsBeforePivotKept ==
  /\ [](run.pc = "forward" =>
          /\ Len(run.updatedSchedule) >= RunUpdateIndex + 2
          /\ \A j \in 1..RunUpdateIndex :
               run.updatedSchedule[j] = run.currentSchedule[j])
  /\ [][RunForwardEnd =>
          SubSeq(run'.currentSchedule, 1, RunUpdateIndex)
            = SubSeq(run.currentSchedule, 1, RunUpdateIndex)]_vars
  /\ [][RunReturnSorted => schedule' = run.currentSchedule]_vars

\* the pass of an update with records before its pivot is over, and records
\* of the forward loop have been added after the payments of the update
C25_Witness ==
  /\ run.pc = "forward"
  /\ ~RunForwardCondition
  /\ RunUpdateIndex >= 1
  /\ Len(run.updatedSchedule) > RunUpdateIndex + 2
  /\ run.updatedSchedule # run.currentSchedule

\* the updates of a sorted list that find a pivot when the list is applied to
\* a schedule, one after the other
RECURSIVE AppliedUpdates(_, _, _, _)
AppliedUpdates(currentSchedule, updates, originalLoanAmount, originalTermMonths) ==
  IF updates = <<>> THEN <<>>
  ELSE (IF FindUpdateIndex(currentSchedule, Head(updates).date) = -1
        THEN <<>> ELSE <<Head(updates)>>)
       \o AppliedUpdates(ApplyUpdate(currentSchedule, Head(updates),
                                     originalLoanAmount, originalTermMonths),
                         Tail(updates), originalLoanAmount, originalTermMonths)

\* the applied updates of the call
RunApplied ==
  AppliedUpdates(baseSchedule, sortedUpdates(loanUpdates), loanAmount, paymentTerm * 12)

\* C26: the schedule the call returns has as many records without a month
\* number as updates were applied, and for every applied update one of them
\* with the date and the principal payment of the update
C26_OneExtraRecordPerAppliedUpdate ==
  run.pc = "done" /\ loanUpdates # <<>> =>
    /\ Cardinality(ExtraRecords(schedule)) = Len(RunApplied)
    /\ \A u \in 1..Len(RunApplied) :
         \E i \in ExtraRecords(schedule) :
           /\ schedule[i].date = RunApplied[u].date
           /\ schedule[i].principal = Round2(RunApplied[u].principalPayment)

\* the pass of the current update evaluates calculateMonthlyPayment: for a
\* retain-term update, and for a retain-payment update that takes the fallback
RunPaymentComputed ==
  \/ Head(run.updates).updateType = "retain-term"
  \/ ~IsFinite(RunSolvedMonths)
  \/ RunSolvedMonths <= 0

\* C27: whenever the pass of an update computes the monthly payment, it does
\* so over a term of at least one month and obtains a finite amount that is
\* not negative; and every record of the schedule under construction and of
\* the schedule returned has a finite payment amount that is not negative
C27_PaymentTermPositive ==
  /\ [][RunUpdatePayments /\ RunPaymentComputed =>
          /\ run'.remainingMonths > 0
          /\ IsFinite(run'.newMonthlyPayment)
          /\ run'.newMonthlyPayment >= 0]_vars
  /\ [](run.pc = "forward" =>
          \A i \in 1..Len(run.updatedSchedule) :
            IsFinite(run.updatedSchedule[i].payment)
              /\ run.updatedSchedule[i].payment >= 0)
  /\ [](run.pc = "done" =>
          \A i \in 1..Len(schedule) :
            IsFinite(schedule[i].payment) /\ schedule[i].payment >= 0)

\* C28: when at least one update was applied, the last record of the
\* schedule the call returns has a remaining balance of at most 0.01
C28_EndsPaidOff ==
  run.pc = "done" /\ Len(RunApplied) >= 1 =>
    /\ IsFinite(schedule[Len(schedule)].remainingBalance)
    /\ schedule[Len(schedule)].remainingBalance <= Cent


\* C29: in the forward loop, once a record has been added, the balance that
\* the next pass computes its interest and its balance from is the remaining
\* balance stored in the last record, rounded to 2 decimals
C29_CarriedBalanceIsStoredBalance ==
  run.pc = "forward" /\ run.month >= 1 =>
    run.remainingBalance
      = run.updatedSchedule[Len(run.updatedSchedule)].remainingBalance


\* C30: the amount that submitLoanUpdate will store is at all times the
\* amount that the text shown in the field of the form writes, 0 for an
\* empty field
C30_PendingAmountMatchesText ==
  form.principalPayment = parseLoanAmount(form.principalPaymentDisplay)

====
